---- MODULE Spec2Model ----
(***************************************************************************)
(* Rental lifecycle of the movie rental system: RentalModel.rent_movie,    *)
(* return_movie, update_overdue_statuses and the MovieModel operations     *)
(* that touch the stock of a movie, run against the MySQL (InnoDB) store   *)
(* declared by DatabaseSetup.create_tables.                                *)
(*                                                                         *)
(* Every call opens its own connection (autocommit off), so a call is a    *)
(* transaction: its statements are the steps below, their writes stay      *)
(* private to the connection until commit, and row locks are held from     *)
(* the statement that takes them until commit or rollback.  The tables     *)
(* (movies, customers, rentals, returns) hold the committed rows, which    *)
(* is what the first SELECT of any other connection reads.                 *)
(* Money is in cents, dates are day numbers.                               *)
(***************************************************************************)
EXTENDS Integers, Sequences, FiniteSets, TLC

\* ---------------------------------------------------------------- bounds
MaxProcs   == 2      \* connections that may be open at the same time
MaxMovies  == 1      \* movie ids
MaxRentals == 2      \* rental ids handed out by AUTO_INCREMENT
MaxCopies  == 2      \* largest copy count / stock quantity entered
MaxDay     == 2      \* last day the clock reaches

\* ------------------------------------------------------ program constants
late_fee_per_day == 200
DefaultRate      == 299

Procs     == 1..MaxProcs
MovieIds  == 1..MaxMovies
CustIds   == 1..2

VARIABLES movies, customers, rentals, returns, today, nextRentalId, nextMovieId, conn

vars == <<movies, customers, rentals, returns, today, nextRentalId, nextMovieId, conn>>

\* ----------------------------------------------------------------- rows
MovieRow(title, rate, stock, total, avail) ==
    [title |-> title, rental_rate |-> rate, stock_quantity |-> stock,
     total_copies |-> total, is_available |-> avail]

RentalRow(c, m, rdate, due, charge) ==
    [customer_id |-> c, movie_id |-> m, rental_date |-> rdate, due_date |-> due,
     actual_return_date |-> -1, total_charge |-> charge, late_fee |-> 0,
     rental_status |-> "active"]

ReturnRow(r, rdate, days, fee, paid) ==
    [rental_id |-> r, return_date |-> rdate, late_days |-> days,
     late_fee |-> fee, total_paid |-> paid]

\* --------------------------------------------------- connection (a call)
IdleConn ==
    [pc |-> "idle", op |-> "none", customer_id |-> 0, movie_id |-> 0,
     rental_id |-> 0, due_date |-> 0, row_date |-> 0, stock_quantity |-> 0,
     total_charge |-> 0, return_date |-> 0, late_days |-> 0, late_fee |-> 0,
     total_paid |-> 0, new_quantity |-> 0, overdue |-> {}, updated_count |-> 0,
     found |-> {}, rental_days |-> 0, result |-> "none"]

Max(a, b) == IF a > b THEN a ELSE b

\* the call has returned: the connection is closed, its locals are gone
\* (what stays is what the caller was given back and what it had passed in;
\* for the overdue sweep: the count it returned, 0 on failure, and the day it
\* was run)
Finished(c, res) ==
    [IdleConn EXCEPT !.pc = "done", !.op = c.op, !.movie_id = c.movie_id,
                     !.rental_id = c.rental_id, !.result = res,
                     !.updated_count = IF res = "ok" THEN c.updated_count ELSE 0,
                     !.row_date = IF c.op = "promote" THEN c.row_date ELSE 0]

\* ------------------------------------------------- InnoDB row locks held
\* the FOREIGN KEY check locking the whole movies table instead of one row
HoldsMovieS_TableLock(c, m) ==
    c.op = "rent" /\ c.pc \in {"rent_update", "rent_commit"}

\* INSERT INTO rentals checks its FOREIGN KEY (movie_id): shared lock on the
\* movie row, kept by the transaction until it ends.
HoldsMovieS(c, m) ==
    c.op = "rent" /\ c.movie_id = m /\ c.pc \in {"rent_update", "rent_commit"}

\* UPDATE movies ... WHERE movie_id = m: exclusive lock on the movie row.
HoldsMovieX(c, m) ==
    /\ c.movie_id = m
    /\ \/ c.op = "rent" /\ c.pc = "rent_commit"
       \/ c.op = "return" /\ c.pc = "ret_commit"
       \/ c.op = "stock" /\ c.pc = "stock_commit"

\* UPDATE rentals: exclusive lock on every rental row it changes.
HoldsRentalX(c, r) ==
    \/ c.op = "return" /\ c.rental_id = r
         /\ c.pc \in {"ret_insert", "ret_update_movie", "ret_commit"}
    \/ c.op = "promote" /\ c.pc = "promote_commit" /\ r \in c.overdue

\* p's next statement needs a lock on a movie row that q holds
WaitsFor(p, q) ==
    /\ p # q
    /\ \/ conn[p].pc = "rent_insert" /\ HoldsMovieX(conn[q], conn[p].movie_id)
       \/ /\ conn[p].pc \in {"rent_update", "ret_update_movie"}
          /\ \/ HoldsMovieX(conn[q], conn[p].movie_id)
             \/ HoldsMovieS(conn[q], conn[p].movie_id)
       \/ conn[p].pc = "ret_update_rental" /\ HoldsRentalX(conn[q], conn[p].rental_id)

Blocked(p) == \E q \in Procs : WaitsFor(p, q)

MovieLocked(p, m) ==
    \E q \in Procs \ {p} : HoldsMovieX(conn[q], m) \/ HoldsMovieS(conn[q], m)

RentalLocked(p, r) == \E q \in Procs \ {p} : HoldsRentalX(conn[q], r)

\* ------------------------------------------- transactions: commit, rollback
\* the committed tables once the writes made so far by call c are applied
\* rent_movie forgetting to recompute is_available
NewMovieRow_StaleFlag(c) ==
    LET old == movies[c.movie_id]
        new_stock == CASE c.op = "rent"   -> c.stock_quantity - 1
                       [] c.op = "return" -> c.stock_quantity + 1
                       [] OTHER           -> c.new_quantity
        avail == CASE c.op = "return" -> TRUE
                   [] c.op = "rent"   -> old.is_available
                   [] OTHER           -> new_stock > 0
    IN  [old EXCEPT !.stock_quantity = new_stock, !.is_available = avail]

\* return_movie writing back the stock it read, without the increment
NewMovieRow_NoIncrement(c) ==
    LET old == movies[c.movie_id]
        new_stock == CASE c.op = "rent"   -> c.stock_quantity - 1
                       [] c.op = "return" -> c.stock_quantity
                       [] OTHER           -> c.new_quantity
        avail == IF c.op = "return" THEN TRUE ELSE new_stock > 0
    IN  [old EXCEPT !.stock_quantity = new_stock, !.is_available = avail]

NewMovieRow(c) ==
    LET old == movies[c.movie_id]
        new_stock == CASE c.op = "rent"   -> c.stock_quantity - 1
                       [] c.op = "return" -> c.stock_quantity + 1
                       [] OTHER           -> c.new_quantity
        avail == IF c.op = "return" THEN TRUE ELSE new_stock > 0
    IN  [old EXCEPT !.stock_quantity = new_stock, !.is_available = avail]

AppliedMovies(c) ==
    IF HoldsMovieX(c, c.movie_id) /\ c.movie_id \in DOMAIN movies
    THEN [movies EXCEPT ![c.movie_id] = NewMovieRow(c)]
    ELSE movies

AppliedRentals(c) ==
    CASE c.op = "rent" /\ c.pc \in {"rent_update", "rent_commit"} ->
           rentals @@ (c.rental_id :>
               RentalRow(c.customer_id, c.movie_id, c.row_date, c.due_date,
                         c.total_charge))
      [] c.op = "return" /\ HoldsRentalX(c, c.rental_id) ->
           [rentals EXCEPT ![c.rental_id] =
               [@ EXCEPT !.actual_return_date = c.return_date,
                         !.late_fee = c.late_fee,
                         !.rental_status = "returned"]]
      [] c.op = "promote" /\ c.pc = "promote_commit" ->
           [r \in DOMAIN rentals |->
               IF r \in c.overdue
               THEN [rentals[r] EXCEPT !.rental_status = "overdue"]
               ELSE rentals[r]]
      [] OTHER -> rentals

\* the Return row written with the rental charge alone as total_paid
AppliedReturns_ChargeOnly(c) ==
    IF c.op = "return" /\ c.pc \in {"ret_update_movie", "ret_commit"}
    THEN Append(returns, ReturnRow(c.rental_id, c.row_date, c.late_days,
                                   c.late_fee, c.total_charge))
    ELSE returns

AppliedReturns(c) ==
    IF c.op = "return" /\ c.pc \in {"ret_update_movie", "ret_commit"}
    THEN Append(returns, ReturnRow(c.rental_id, c.row_date, c.late_days,
                                   c.late_fee, c.total_paid))
    ELSE returns

\* connection.commit()
Committed(c) ==
    [movies |-> AppliedMovies(c), rentals |-> AppliedRentals(c),
     returns |-> AppliedReturns(c)]

\* the except block without its rollback: resetting autocommit in the finally
\* block commits what the call had written
RolledBack_Leaks(c) == Committed(c)

\* connection.rollback() in the except block: every write of the call is undone
RolledBack(c) ==
    [movies |-> movies, rentals |-> rentals, returns |-> returns]

FailureMessage(c) ==
    CASE c.op = "rent"    -> "Failed to rent movie"
      [] c.op = "return"  -> "Failed to return movie"
      [] c.op = "promote" -> "Operation failed"
      [] c.op = "stock"   -> "Failed to update stock"
      [] OTHER            -> "Failed"

\* except Error: rollback, return the failure; finally: close the connection
Fail(p) ==
    LET after == RolledBack(conn[p])
    IN  /\ movies' = after.movies
        /\ rentals' = after.rentals
        /\ returns' = after.returns
        /\ conn' = [conn EXCEPT ![p] =
               Finished([conn[p] EXCEPT
                            !.rental_id = IF conn[p].op = "rent" THEN 0 ELSE @],
                        FailureMessage(conn[p]))]
        /\ UNCHANGED <<customers, today>>

\* ------------------------------------------------------------ rent_movie
\* lines 43-83: connect, the two SELECTs (one consistent snapshot), the checks
\* the availability check looking at the flag only
RentCheckResult_FlagOnly(c, m, due) ==
    IF c \notin DOMAIN customers THEN "Customer not found"
    ELSE IF ~customers[c].is_active THEN "Customer account is inactive"
    ELSE IF m \notin DOMAIN movies THEN "Movie not found"
    ELSE IF ~movies[m].is_available
         THEN "Movie is not available for rental"
    ELSE IF due - today <= 0 THEN "Due date must be in the future"
    ELSE "proceed"

\* the customer looked up without the test of is_active
RentCheckResult_AnyCustomer(c, m, due) ==
    IF c \notin DOMAIN customers THEN "Customer not found"
    ELSE IF m \notin DOMAIN movies THEN "Movie not found"
    ELSE IF ~movies[m].is_available \/ movies[m].stock_quantity <= 0
         THEN "Movie is not available for rental"
    ELSE IF due - today <= 0 THEN "Due date must be in the future"
    ELSE "proceed"

\* the due date check moved in front of the availability check
RentCheckResult_DateFirst(c, m, due) ==
    IF c \notin DOMAIN customers THEN "Customer not found"
    ELSE IF ~customers[c].is_active THEN "Customer account is inactive"
    ELSE IF m \notin DOMAIN movies THEN "Movie not found"
    ELSE IF due - today <= 0 THEN "Due date must be in the future"
    ELSE IF ~movies[m].is_available \/ movies[m].stock_quantity <= 0
         THEN "Movie is not available for rental"
    ELSE "proceed"

RentCheckResult(c, m, due) ==
    IF c \notin DOMAIN customers THEN "Customer not found"
    ELSE IF ~customers[c].is_active THEN "Customer account is inactive"
    ELSE IF m \notin DOMAIN movies THEN "Movie not found"
    ELSE IF ~movies[m].is_available \/ movies[m].stock_quantity <= 0
         THEN "Movie is not available for rental"
    ELSE IF due - today <= 0 THEN "Due date must be in the future"
    ELSE "proceed"

\* the charge taken as the rate of one day, whatever the rental period
RentCheck_FlatCharge(p, c, m, due) ==
    /\ conn[p].pc \in {"idle", "done"}
    /\ LET call == [IdleConn EXCEPT !.op = "rent", !.customer_id = c,
                                    !.movie_id = m, !.due_date = due]
           res  == RentCheckResult(c, m, due)
       IN  conn' = [conn EXCEPT ![p] =
                IF res # "proceed" THEN Finished(call, res)
                ELSE [call EXCEPT !.pc = "rent_insert",
                        !.stock_quantity = movies[m].stock_quantity,
                        !.total_charge = movies[m].rental_rate]]
    /\ UNCHANGED <<movies, customers, rentals, returns, today, nextRentalId, nextMovieId>>

\* the INSERT moved in front of the due date check, and no rollback on the
\* early return: the row stays when the call is refused for its due date
RentCheck_InsertFirst(p, c, m, due) ==
    /\ conn[p].pc \in {"idle", "done"}
    /\ LET call == [IdleConn EXCEPT !.op = "rent", !.customer_id = c,
                                    !.movie_id = m, !.due_date = due]
           res  == RentCheckResult(c, m, due)
           early == res = "Due date must be in the future"
                       /\ nextRentalId <= MaxRentals /\ due >= today
       IN  /\ conn' = [conn EXCEPT ![p] =
                IF res # "proceed" THEN Finished(call, res)
                ELSE [call EXCEPT !.pc = "rent_insert",
                        !.stock_quantity = movies[m].stock_quantity,
                        !.total_charge = movies[m].rental_rate * (due - today)]]
           /\ rentals' = IF early
                         THEN rentals @@ (nextRentalId :> RentalRow(c, m, today, due, 0))
                         ELSE rentals
           /\ nextRentalId' = IF early THEN nextRentalId + 1 ELSE nextRentalId
    /\ UNCHANGED <<movies, customers, returns, today, nextMovieId>>

RentCheck(p, c, m, due) ==
    /\ conn[p].pc \in {"idle", "done"}
    /\ LET call == [IdleConn EXCEPT !.op = "rent", !.customer_id = c,
                                    !.movie_id = m, !.due_date = due]
           res  == RentCheckResult(c, m, due)
       IN  conn' = [conn EXCEPT ![p] =
                IF res # "proceed" THEN Finished(call, res)
                ELSE [call EXCEPT !.pc = "rent_insert",
                        !.stock_quantity = movies[m].stock_quantity,
                        !.total_charge = movies[m].rental_rate * (due - today)]]
    /\ UNCHANGED <<movies, customers, rentals, returns, today, nextRentalId, nextMovieId>>

\* lines 85-91: INSERT INTO rentals; rental_date is DEFAULT CURRENT_TIMESTAMP
RentInsert(p) ==
    /\ conn[p].pc = "rent_insert"
    /\ nextRentalId <= MaxRentals
    /\ ~Blocked(p)
    /\ nextRentalId' = nextRentalId + 1
    /\ UNCHANGED nextMovieId
    /\ IF /\ conn[p].customer_id \in DOMAIN customers      \* FOREIGN KEY
          /\ conn[p].movie_id \in DOMAIN movies            \* FOREIGN KEY
          /\ conn[p].due_date >= today                     \* CHECK (due_date >= DATE(rental_date))
          /\ conn[p].total_charge >= 0                     \* CHECK (total_charge >= 0)
       THEN /\ conn' = [conn EXCEPT ![p].pc = "rent_update",
                                    ![p].rental_id = nextRentalId,
                                    ![p].row_date = today]
            /\ UNCHANGED <<movies, customers, rentals, returns, today>>
       ELSE Fail(p)

\* lines 93-102: UPDATE movies SET stock_quantity = new_stock, is_available
RentUpdateMovie(p) ==
    /\ conn[p].pc = "rent_update"
    /\ ~Blocked(p)
    /\ IF conn[p].stock_quantity - 1 >= 0                  \* CHECK (stock_quantity >= 0)
       THEN /\ conn' = [conn EXCEPT ![p].pc = "rent_commit"]
            /\ UNCHANGED <<movies, customers, rentals, returns, today>>
       ELSE Fail(p)
    /\ UNCHANGED <<nextRentalId, nextMovieId>>

\* connection.commit() of any call, then the success return and the close
Commit(p) ==
    /\ conn[p].pc \in {"rent_commit", "ret_commit", "promote_commit", "stock_commit"}
    /\ LET after == Committed(conn[p])
       IN  /\ movies' = after.movies
           /\ rentals' = after.rentals
           /\ returns' = after.returns
    /\ conn' = [conn EXCEPT ![p] = Finished(@, "ok")]
    /\ UNCHANGED <<customers, today, nextRentalId, nextMovieId>>

\* the store raises mysql.connector.Error on the statement the call is about
\* to run (or on the commit)
StoreError(p) ==
    /\ conn[p].pc \notin {"idle", "done"}
    /\ Fail(p)
    /\ UNCHANGED <<nextRentalId, nextMovieId>>

\* a store that does not look for transactions waiting for each other
Deadlock_Undetected(p) ==
    /\ FALSE
    /\ Fail(p)
    /\ UNCHANGED <<nextRentalId, nextMovieId>>

\* InnoDB finds two transactions waiting for each other and rolls one back
\* with error 1213
Deadlock(p) ==
    /\ \E q \in Procs : WaitsFor(p, q) /\ WaitsFor(q, p)
    /\ Fail(p)
    /\ UNCHANGED <<nextRentalId, nextMovieId>>

\* ---------------------------------------------------------- return_movie
\* lines 144-153: SELECT ... FROM rentals r JOIN movies m
\*                WHERE r.rental_id = %s AND r.rental_status = 'active'
\* the SELECT without its rental_status condition
ReturnSelectFinds_AnyStatus(r) ==
    /\ r \in DOMAIN rentals
    /\ rentals[r].movie_id \in DOMAIN movies

ReturnSelectFinds(r) ==
    /\ r \in DOMAIN rentals
    /\ rentals[r].movie_id \in DOMAIN movies
    /\ rentals[r].rental_status = "active"

\* the fee computed on the signed difference of the dates
calculate_late_fee_Signed(due_date, return_date) ==
    LET late_days == return_date - due_date
    IN  <<late_days, late_days * late_fee_per_day>>

\* lines 229-246 (and the same two lines at 161-162)
calculate_late_fee(due_date, return_date) ==
    LET late_days == Max(0, return_date - due_date)
    IN  <<late_days, late_days * late_fee_per_day>>

\* return_date = None: the argument left out
NoDate == -1

\* a call of calculate_late_fee by the return form (on_return_select) or by
\* any other caller: no connection, no statement, the pair is handed back
CalculateLateFee(p, due_date, return_date) ==
    /\ conn[p].pc \in {"idle", "done"}
    /\ LET fee == calculate_late_fee(due_date,
                      IF return_date = NoDate THEN today ELSE return_date)
       IN  conn' = [conn EXCEPT ![p] =
               [IdleConn EXCEPT !.pc = "done", !.op = "late_fee",
                                !.due_date = due_date,
                                !.return_date = return_date,
                                !.late_days = fee[1], !.late_fee = fee[2],
                                !.result = "ok"]]
    /\ UNCHANGED <<movies, customers, rentals, returns, today, nextRentalId, nextMovieId>>

\* lines 136-166: connect, SELECT, the fee computation
ReturnSelect(p, r) ==
    /\ conn[p].pc \in {"idle", "done"}
    /\ LET call == [IdleConn EXCEPT !.op = "return", !.rental_id = r]
           fee  == calculate_late_fee(rentals[r].due_date, today)
       IN  conn' = [conn EXCEPT ![p] =
                IF ~ReturnSelectFinds(r)
                THEN Finished(call, "Rental not found or already returned")
                ELSE [call EXCEPT !.pc = "ret_update_rental",
                        !.movie_id = rentals[r].movie_id,
                        !.due_date = rentals[r].due_date,
                        !.total_charge = rentals[r].total_charge,
                        !.stock_quantity = movies[rentals[r].movie_id].stock_quantity,
                        !.return_date = today,
                        !.late_days = fee[1],
                        !.late_fee = fee[2],
                        !.total_paid = rentals[r].total_charge + fee[2]]]
    /\ UNCHANGED <<movies, customers, rentals, returns, today, nextRentalId, nextMovieId>>

\* lines 168-175: UPDATE rentals SET ... rental_status = 'returned'
\*                WHERE rental_id = %s
ReturnUpdateRental(p) ==
    /\ conn[p].pc = "ret_update_rental"
    /\ ~Blocked(p)
    /\ IF conn[p].late_fee >= 0                            \* CHECK (late_fee >= 0)
       THEN /\ conn' = [conn EXCEPT ![p].pc = "ret_insert"]
            /\ UNCHANGED <<movies, customers, rentals, returns, today>>
       ELSE Fail(p)
    /\ UNCHANGED <<nextRentalId, nextMovieId>>

\* lines 177-181: INSERT INTO returns; its return_date is datetime.now()
ReturnInsert(p) ==
    /\ conn[p].pc = "ret_insert"
    /\ IF /\ conn[p].late_days >= 0                        \* CHECK (late_days >= 0)
          /\ conn[p].late_fee >= 0                         \* CHECK (late_fee >= 0)
          /\ conn[p].total_paid >= 0                       \* CHECK (total_paid >= 0)
       THEN /\ conn' = [conn EXCEPT ![p].pc = "ret_update_movie",
                                    ![p].row_date = today]
            /\ UNCHANGED <<movies, customers, rentals, returns, today>>
       ELSE Fail(p)
    /\ UNCHANGED <<nextRentalId, nextMovieId>>

\* lines 183-190: UPDATE movies SET stock_quantity = new_stock, is_available = TRUE
ReturnUpdateMovie(p) ==
    /\ conn[p].pc = "ret_update_movie"
    /\ ~Blocked(p)
    /\ conn' = [conn EXCEPT ![p].pc = "ret_commit"]
    /\ UNCHANGED <<movies, customers, rentals, returns, today, nextRentalId, nextMovieId>>

\* ----------------------------------------------- update_overdue_statuses
\* the rows the UPDATE matches: rental_status = 'active' AND due_date < CURDATE()
\* the sweep without its rental_status = 'active' condition
PastDue_AnyStatus == {r \in DOMAIN rentals : rentals[r].due_date < today}

\* the sweep matching the rentals that are overdue already as well
PastDue_OverdueAgain ==
    {r \in DOMAIN rentals :
        rentals[r].rental_status \in {"active", "overdue"} /\ rentals[r].due_date < today}

\* the sweep with due_date <= CURDATE()
PastDue_DueToday ==
    {r \in DOMAIN rentals :
        rentals[r].rental_status = "active" /\ rentals[r].due_date <= today}

PastDue == {r \in DOMAIN rentals :
               rentals[r].rental_status = "active" /\ rentals[r].due_date < today}

\* lines 388-403: connect, UPDATE rentals SET rental_status = 'overdue'
PromoteUpdate(p) ==
    /\ conn[p].pc \in {"idle", "done"}
    /\ \A r \in DOMAIN rentals :
          rentals[r].rental_status = "active" => ~RentalLocked(p, r)
    /\ conn' = [conn EXCEPT ![p] =
           [IdleConn EXCEPT !.op = "promote", !.pc = "promote_commit",
                            !.overdue = PastDue,
                            !.updated_count = Cardinality(PastDue),   \* cursor.rowcount
                            !.row_date = today]]                      \* CURDATE()
    /\ UNCHANGED <<movies, customers, rentals, returns, today, nextRentalId, nextMovieId>>

\* ------------------------------------------------ the rental form preview
\* datetime.now() has a time of day: an instant is counted in steps of the
\* clock, TicksPerDay of them to a day, step 0 of a day being midnight
TicksPerDay == 2
TimesOfDay  == 0..(TicksPerDay - 1)

\* datetime.strptime(due_date, '%Y-%m-%d'): midnight of that date
strptime(date) == date * TicksPerDay

\* datetime.now() on day `date` at step `time` of the day
now(date, time) == date * TicksPerDay + time

\* timedelta.days: whole days, rounded towards minus infinity
timedelta_days(delta) == delta \div TicksPerDay

\* update_rental_info, lines 326-359: get_movie_by_id, then
\* rental_days = (datetime.strptime(due_date, '%Y-%m-%d') - datetime.now()).days
\* and total_charge = movie['rental_rate'] * rental_days
UpdateRentalInfo(p, m, due, time) ==
    /\ conn[p].pc \in {"idle", "done"}
    /\ LET call == [IdleConn EXCEPT !.pc = "done", !.op = "preview",
                                    !.movie_id = m, !.due_date = due]
           rental_days == timedelta_days(strptime(due) - now(today, time))
       IN  conn' = [conn EXCEPT ![p] =
               IF m \notin DOMAIN movies
               THEN [call EXCEPT !.result = "Could not load movie details"]
               ELSE IF rental_days > 0
               THEN [call EXCEPT !.rental_days = rental_days,
                                 !.total_charge = movies[m].rental_rate * rental_days,
                                 !.result = "ok"]
               ELSE [call EXCEPT !.result = "Due date must be in the future"]]
    /\ UNCHANGED <<movies, customers, rentals, returns, today, nextRentalId, nextMovieId>>

\* ------------------------------------------------------- rental listings
\* lines 248-325: SELECT ... FROM rentals r JOIN customers c JOIN movies m
\* WHERE r.rental_status = %s (the only filter its callers here pass; "none"
\* is the filter left out); the rows are identified by their rental_id
search_rentals(status) ==
    {r \in DOMAIN rentals :
        /\ rentals[r].customer_id \in DOMAIN customers
        /\ rentals[r].movie_id \in DOMAIN movies
        /\ status # "none" => rentals[r].rental_status = status}

\* lines 327-334
get_active_rentals == search_rentals("active")

\* lines 336-379: WHERE r.rental_status = 'active' AND r.due_date < CURDATE()
get_overdue_rentals ==
    {r \in DOMAIN rentals :
        /\ rentals[r].customer_id \in DOMAIN customers
        /\ rentals[r].movie_id \in DOMAIN movies
        /\ rentals[r].rental_status = "active"
        /\ rentals[r].due_date < today}

\* the return form loading its table (load_active_rentals)
GetActiveRentals(p) ==
    /\ conn[p].pc \in {"idle", "done"}
    /\ conn' = [conn EXCEPT ![p] =
           [IdleConn EXCEPT !.pc = "done", !.op = "get_active",
                            !.found = get_active_rentals, !.result = "ok"]]
    /\ UNCHANGED <<movies, customers, rentals, returns, today, nextRentalId, nextMovieId>>

\* the rentals tab showing the overdue rentals (show_overdue_rentals)
GetOverdueRentals(p) ==
    /\ conn[p].pc \in {"idle", "done"}
    /\ conn' = [conn EXCEPT ![p] =
           [IdleConn EXCEPT !.pc = "done", !.op = "get_overdue",
                            !.found = get_overdue_rentals, !.result = "ok"]]
    /\ UNCHANGED <<movies, customers, rentals, returns, today, nextRentalId, nextMovieId>>

\* cursor.rowcount after an UPDATE ... WHERE <primary key>: 0 when no row
\* matches; for a matching row that already holds the new values the server
\* reports 0 changed rows, or 1 found row when the client asks for found rows
RowCounts(matched, changed) ==
    IF ~matched THEN {0} ELSE IF changed THEN {1} ELSE {0, 1}

\* ------------------------------------------ MovieModel.update_stock_quantity
\* lines 314-330: connect, UPDATE movies SET stock_quantity, is_available
StockUpdate(p, m, q) ==
    /\ conn[p].pc \in {"idle", "done"}
    /\ ~MovieLocked(p, m)
    /\ LET call == [IdleConn EXCEPT !.op = "stock", !.movie_id = m,
                                    !.new_quantity = q]
       IN  \E rowcount \in RowCounts(m \in DOMAIN movies,
                                     m \in DOMAIN movies /\ movies[m] # NewMovieRow(call)) :
             conn' = [conn EXCEPT ![p] =
                IF m \in DOMAIN movies /\ q < 0             \* CHECK (stock_quantity >= 0)
                THEN Finished(call, FailureMessage(call))
                ELSE IF rowcount = 0 THEN Finished(call, "Movie not found")
                ELSE [call EXCEPT !.pc = "stock_commit"]]
    /\ UNCHANGED <<movies, customers, rentals, returns, today, nextRentalId, nextMovieId>>

\* ------------------------------------------------------ MovieModel.add_movie
\* lines 45-82: duplicate check, INSERT INTO movies (..., stock_quantity,
\* total_copies) VALUES (..., total_copies, total_copies), commit;
\* is_available is left to its column default TRUE
\* the INSERT leaving stock_quantity to its column default 0
AddMovie_DefaultStock(p, title, rental_rate, total_copies) ==
    /\ conn[p].pc \in {"idle", "done"}
    /\ LET call == [IdleConn EXCEPT !.op = "add_movie"]
           dup  == \E m \in DOMAIN movies : movies[m].title = title
           legal == rental_rate >= 0 /\ total_copies >= 0
       IN  IF dup
           THEN /\ conn' = [conn EXCEPT ![p] = Finished(call,
                      "Movie with same title and director already exists")]
                /\ UNCHANGED <<movies, nextMovieId>>
           ELSE /\ nextMovieId <= MaxMovies
                /\ nextMovieId' = nextMovieId + 1
                /\ IF legal
                   THEN /\ movies' = movies @@ (nextMovieId :>
                              MovieRow(title, rental_rate, 0, total_copies, TRUE))
                        /\ conn' = [conn EXCEPT ![p] =
                              Finished([call EXCEPT !.movie_id = nextMovieId], "ok")]
                   ELSE /\ conn' = [conn EXCEPT ![p] =
                              Finished(call, "Failed to add movie")]
                        /\ UNCHANGED movies
    /\ UNCHANGED <<customers, rentals, returns, today, nextRentalId>>

AddMovie(p, title, rental_rate, total_copies) ==
    /\ conn[p].pc \in {"idle", "done"}
    /\ LET call == [IdleConn EXCEPT !.op = "add_movie"]
           dup  == \E m \in DOMAIN movies : movies[m].title = title
           legal == rental_rate >= 0 /\ total_copies >= 0   \* the CHECK constraints
       IN  IF dup
           THEN /\ conn' = [conn EXCEPT ![p] = Finished(call,
                      "Movie with same title and director already exists")]
                /\ UNCHANGED <<movies, nextMovieId>>
           ELSE /\ nextMovieId <= MaxMovies
                /\ nextMovieId' = nextMovieId + 1
                /\ IF legal
                   THEN /\ movies' = movies @@ (nextMovieId :>
                              MovieRow(title, rental_rate, total_copies,
                                       total_copies, TRUE))
                        /\ conn' = [conn EXCEPT ![p] =
                              Finished([call EXCEPT !.movie_id = nextMovieId], "ok")]
                   ELSE /\ conn' = [conn EXCEPT ![p] =
                              Finished(call, "Failed to add movie")]
                        /\ UNCHANGED movies
    /\ UNCHANGED <<customers, rentals, returns, today, nextRentalId>>

\* --------------------------------------------------- MovieModel.update_movie
\* lines 96-130: UPDATE movies SET <the keyword arguments> WHERE movie_id = %s;
\* the movie form passes title, rental_rate and total_copies
UpdateMovie(p, m, title, rental_rate, total_copies) ==
    /\ conn[p].pc \in {"idle", "done"}
    /\ LET call == [IdleConn EXCEPT !.op = "update_movie", !.movie_id = m]
           new  == [movies[m] EXCEPT !.title = title, !.rental_rate = rental_rate,
                                     !.total_copies = total_copies]
           legal == rental_rate >= 0 /\ total_copies >= 0   \* the CHECK constraints
       IN  \E rowcount \in RowCounts(m \in DOMAIN movies,
                                     m \in DOMAIN movies /\ new # movies[m]) :
             IF m \in DOMAIN movies /\ ~legal
             THEN /\ conn' = [conn EXCEPT ![p] =
                        Finished(call, "Failed to update movie")]
                  /\ UNCHANGED movies
             ELSE IF rowcount = 0
             THEN /\ conn' = [conn EXCEPT ![p] = Finished(call, "Movie not found")]
                  /\ UNCHANGED movies
             ELSE /\ movies' = [movies EXCEPT ![m] = new]
                  /\ conn' = [conn EXCEPT ![p] = Finished(call, "ok")]
    /\ UNCHANGED <<customers, rentals, returns, today, nextRentalId, nextMovieId>>

\* the rentals of a movie, or of a customer, that are not returned
\* (SELECT COUNT(*) ... AND rental_status IN ('active', 'overdue'))
ActiveRentalsOfMovie(m) ==
    {r \in DOMAIN rentals :
        rentals[r].movie_id = m /\ rentals[r].rental_status \in {"active", "overdue"}}

ActiveRentalsOfCustomer(c) ==
    {r \in DOMAIN rentals :
        rentals[r].customer_id = c /\ rentals[r].rental_status \in {"active", "overdue"}}

\* --------------------------------------------------- MovieModel.delete_movie
\* the DELETE run without the count of rentals, on a table without the
\* FOREIGN KEY of rentals.movie_id
DeleteMovie_Unguarded(p, m) ==
    /\ conn[p].pc \in {"idle", "done"}
    /\ LET call == [IdleConn EXCEPT !.op = "delete_movie", !.movie_id = m]
       IN  IF m \notin DOMAIN movies
           THEN /\ conn' = [conn EXCEPT ![p] = Finished(call, "Movie not found")]
                /\ UNCHANGED movies
           ELSE /\ movies' = [x \in DOMAIN movies \ {m} |-> movies[x]]
                /\ conn' = [conn EXCEPT ![p] = Finished(call, "ok")]
    /\ UNCHANGED <<customers, rentals, returns, today, nextRentalId, nextMovieId>>

\* lines 142-178: the count of unreturned rentals, DELETE FROM movies, commit;
\* FOREIGN KEY (movie_id) ... ON DELETE RESTRICT fails the DELETE of a movie
\* that any rental row refers to
DeleteMovie(p, m) ==
    /\ conn[p].pc \in {"idle", "done"}
    /\ LET call == [IdleConn EXCEPT !.op = "delete_movie", !.movie_id = m]
       IN  IF ActiveRentalsOfMovie(m) # {}
           THEN /\ conn' = [conn EXCEPT ![p] = Finished(call, "Cannot delete movie")]
                /\ UNCHANGED movies
           ELSE IF m \in DOMAIN movies /\ \E r \in DOMAIN rentals : rentals[r].movie_id = m
           THEN /\ conn' = [conn EXCEPT ![p] = Finished(call, "Failed to delete movie")]
                /\ UNCHANGED movies
           ELSE IF m \notin DOMAIN movies                     \* cursor.rowcount == 0
           THEN /\ conn' = [conn EXCEPT ![p] = Finished(call, "Movie not found")]
                /\ UNCHANGED movies
           ELSE /\ movies' = [x \in DOMAIN movies \ {m} |-> movies[x]]
                /\ conn' = [conn EXCEPT ![p] = Finished(call, "ok")]
    /\ UNCHANGED <<customers, rentals, returns, today, nextRentalId, nextMovieId>>

\* --------------------------------------------- CustomerModel.delete_customer
\* the deactivation run without the count of rentals
DeleteCustomer_Unguarded(p, c) ==
    /\ conn[p].pc \in {"idle", "done"}
    /\ LET call == [IdleConn EXCEPT !.op = "delete_customer", !.customer_id = c]
       IN  IF c \notin DOMAIN customers \/ ~customers[c].is_active
           THEN /\ conn' = [conn EXCEPT ![p] = Finished(call, "Customer not found")]
                /\ UNCHANGED customers
           ELSE /\ customers' = [customers EXCEPT ![c].is_active = FALSE]
                /\ conn' = [conn EXCEPT ![p] = Finished(call, "ok")]
    /\ UNCHANGED <<movies, rentals, returns, today, nextRentalId, nextMovieId>>

\* lines 142-181: the count of unreturned rentals,
\* UPDATE customers SET is_active = FALSE, commit
DeleteCustomer(p, c) ==
    /\ conn[p].pc \in {"idle", "done"}
    /\ LET call == [IdleConn EXCEPT !.op = "delete_customer", !.customer_id = c]
       IN  \E rowcount \in RowCounts(c \in DOMAIN customers,
                                     c \in DOMAIN customers /\ customers[c].is_active) :
             IF ActiveRentalsOfCustomer(c) # {}
             THEN /\ conn' = [conn EXCEPT ![p] =
                        Finished(call, "Cannot delete customer")]
                  /\ UNCHANGED customers
             ELSE IF rowcount = 0
             THEN /\ conn' = [conn EXCEPT ![p] = Finished(call, "Customer not found")]
                  /\ UNCHANGED customers
             ELSE /\ customers' = [customers EXCEPT ![c].is_active = FALSE]
                  /\ conn' = [conn EXCEPT ![p] = Finished(call, "ok")]
    /\ UNCHANGED <<movies, rentals, returns, today, nextRentalId, nextMovieId>>

\* ---------------------------------------------------------------- clock
Tick ==
    /\ today < MaxDay
    /\ today' = today + 1
    /\ UNCHANGED <<movies, customers, rentals, returns, nextRentalId, nextMovieId, conn>>

\* ------------------------------------------------------------ the store
DueDates  == 0..MaxDay
CustArgs  == 0..2
MovieArgs == 0..MaxMovies
RentalArgs == 1..MaxRentals
Quantities == (-1)..MaxCopies

\* a store nobody has rented from yet: each movie with all its copies in
\* stock, customer 1 active and customer 2 deactivated
InitStore(copies) ==
    /\ movies = [m \in MovieIds |->
                    MovieRow(m, DefaultRate, copies[m], copies[m], copies[m] > 0)]
    /\ customers = [c \in CustIds |-> [is_active |-> (c = 1)]]
    /\ rentals = <<>>
    /\ returns = <<>>
    /\ today = 0
    /\ nextRentalId = 1
    /\ nextMovieId = MaxMovies + 1
    /\ conn = [p \in Procs |-> IdleConn]

Init == \E copies \in [MovieIds -> 0..MaxCopies] : InitStore(copies)

\* one desktop client: a single connection, one call at a time
Client == CHOOSE p \in Procs : \A q \in Procs : p <= q

\* the rental lifecycle: rent, return, overdue sweep, the clock, store errors
Lifecycle(p) ==
    \/ \E c \in CustArgs, m \in MovieArgs, due \in DueDates : RentCheck(p, c, m, due)
    \/ RentInsert(p)
    \/ RentUpdateMovie(p)
    \/ \E r \in RentalArgs : ReturnSelect(p, r)
    \/ ReturnUpdateRental(p)
    \/ ReturnInsert(p)
    \/ ReturnUpdateMovie(p)
    \/ PromoteUpdate(p)
    \/ Commit(p)
    \/ StoreError(p)
    \/ Tick

Next == Lifecycle(Client)

Spec == Init /\ [][Next]_vars

\* the lifecycle together with manual stock corrections
StockNext ==
    \/ Lifecycle(Client)
    \/ \E m \in MovieArgs, q \in Quantities : StockUpdate(Client, m, q)

StockSpec == Init /\ [][StockNext]_vars

\* the lifecycle together with late fee previews for any pair of dates
ReturnDates == DueDates \cup {NoDate}

FeeNext ==
    \/ Lifecycle(Client)
    \/ \E due \in DueDates, ret \in ReturnDates : CalculateLateFee(Client, due, ret)

FeeSpec == Init /\ [][FeeNext]_vars

\* the lifecycle together with the preview of the rental form, used at any
\* time of the day
FormNext ==
    \/ Lifecycle(Client)
    \/ \E m \in MovieArgs, due \in DueDates, time \in TimesOfDay :
          UpdateRentalInfo(Client, m, due, time)

FormSpec == Init /\ [][FormNext]_vars

\* the lifecycle together with the two rental listings of the rental screen
ReportNext ==
    \/ Lifecycle(Client)
    \/ GetActiveRentals(Client)
    \/ GetOverdueRentals(Client)

ReportSpec == Init /\ [][ReportNext]_vars

\* the movie catalogue is managed too: the store starts with no movie at all
Titles == 1..MaxMovies
Rates  == {DefaultRate}
Copies == (-1)..MaxCopies

AdminInit ==
    /\ movies = <<>>
    /\ customers = [c \in CustIds |-> [is_active |-> (c = 1)]]
    /\ rentals = <<>>
    /\ returns = <<>>
    /\ today = 0
    /\ nextRentalId = 1
    /\ nextMovieId = 1
    /\ conn = [p \in Procs |-> IdleConn]

AdminNext ==
    \/ Lifecycle(Client)
    \/ \E t \in Titles, rate \in Rates, n \in Copies : AddMovie(Client, t, rate, n)
    \/ \E m \in MovieArgs, t \in Titles, rate \in Rates, n \in Copies :
          UpdateMovie(Client, m, t, rate, n)

AdminSpec == AdminInit /\ [][AdminNext]_vars

\* the lifecycle together with the removal of movies and customers
RemovalNext ==
    \/ Lifecycle(Client)
    \/ \E m \in MovieArgs : DeleteMovie(Client, m)
    \/ \E c \in CustArgs : DeleteCustomer(Client, c)

RemovalSpec == Init /\ [][RemovalNext]_vars

\* movies are added to the empty catalogue and from then on only rented,
\* returned and swept
CatalogNext ==
    \/ Lifecycle(Client)
    \/ \E t \in Titles, rate \in Rates, n \in Copies : AddMovie(Client, t, rate, n)

CatalogSpec == AdminInit /\ [][CatalogNext]_vars

\* several clients at once, each making one rent or return call on a store
\* where `out` copies of every movie are already rented out
RaceInitStore(copies, out) ==
    /\ movies = [m \in MovieIds |->
                    MovieRow(m, DefaultRate, copies[m] - out, copies[m],
                             copies[m] - out > 0)]
    /\ customers = [c \in CustIds |-> [is_active |-> (c = 1)]]
    /\ rentals = [r \in 1..(out * MaxMovies) |->
                    RentalRow(1, ((r - 1) % MaxMovies) + 1, 0, 1, DefaultRate)]
    /\ returns = <<>>
    /\ today = 0
    /\ nextRentalId = out * MaxMovies + 1
    /\ nextMovieId = MaxMovies + 1
    /\ conn = [p \in Procs |-> IdleConn]

RaceInit ==
    \E copies \in [MovieIds -> 1..MaxCopies], out \in 0..1 :
        RaceInitStore(copies, out)

RaceNext ==
    \E p \in Procs :
        \/ /\ conn[p].pc = "idle"
           /\ \E c \in CustArgs, m \in MovieArgs, due \in DueDates :
                 RentCheck(p, c, m, due)
        \/ RentInsert(p)
        \/ RentUpdateMovie(p)
        \/ /\ conn[p].pc = "idle"
           /\ \E r \in RentalArgs : ReturnSelect(p, r)
        \/ ReturnUpdateRental(p)
        \/ ReturnInsert(p)
        \/ ReturnUpdateMovie(p)
        \/ Commit(p)
        \/ Deadlock(p)

RaceSpec == RaceInit /\ [][RaceNext]_vars

\* several clients at once on a store with one movie more, each making one
\* rent or return call; `out` are the movies of which one copy is rented out
PairMovieIds == 1..(MaxMovies + 1)

\* the r-th element of a set of numbers, in increasing order
Nth(S, r) == CHOOSE m \in S : Cardinality({x \in S : x < m}) = r - 1

PairInitStore(copies, out) ==
    /\ movies = [m \in PairMovieIds |->
                    LET stock == copies[m] - (IF m \in out THEN 1 ELSE 0)
                    IN  MovieRow(m, DefaultRate, stock, copies[m], stock > 0)]
    /\ customers = [c \in CustIds |-> [is_active |-> (c = 1)]]
    /\ rentals = [r \in 1..Cardinality(out) |->
                    RentalRow(1, Nth(out, r), 0, 1, DefaultRate)]
    /\ returns = <<>>
    /\ today = 0
    /\ nextRentalId = Cardinality(out) + 1
    /\ nextMovieId = MaxMovies + 2
    /\ conn = [p \in Procs |-> IdleConn]

PairInit ==
    \E copies \in [PairMovieIds -> 1..MaxCopies], out \in SUBSET PairMovieIds :
        PairInitStore(copies, out)

PairNext ==
    \E p \in Procs :
        \/ /\ conn[p].pc = "idle"
           /\ \E c \in CustArgs, m \in PairMovieIds, due \in DueDates :
                 RentCheck(p, c, m, due)
        \/ RentInsert(p)
        \/ RentUpdateMovie(p)
        \/ /\ conn[p].pc = "idle"
           /\ \E r \in RentalArgs : ReturnSelect(p, r)
        \/ ReturnUpdateRental(p)
        \/ ReturnInsert(p)
        \/ ReturnUpdateMovie(p)
        \/ Commit(p)
        \/ Deadlock(p)

PairSpec == PairInit /\ [][PairNext]_vars

\* several clients at once, each making one rent, return or overdue sweep
\* call, on a day on which the rentals that are out are not yet, or already,
\* past due; the store answers every request: a call that can take its next
\* step does take it
LiveInit ==
    \E copies \in [MovieIds -> 1..MaxCopies], out \in 0..1, day \in {0, MaxDay} :
        /\ movies = [m \in MovieIds |->
                        MovieRow(m, DefaultRate, copies[m] - out, copies[m],
                                 copies[m] - out > 0)]
        /\ customers = [c \in CustIds |-> [is_active |-> (c = 1)]]
        /\ rentals = [r \in 1..(out * MaxMovies) |->
                        RentalRow(1, ((r - 1) % MaxMovies) + 1, 0, 1, DefaultRate)]
        /\ returns = <<>>
        /\ today = day
        /\ nextRentalId = out * MaxMovies + 1
        /\ nextMovieId = MaxMovies + 1
        /\ conn = [p \in Procs |-> IdleConn]

\* the rental ids still to hand out cover the rents that are under way
RentalIdsLeft ==
    nextRentalId + Cardinality({q \in Procs : conn[q].pc = "rent_insert"})
        <= MaxRentals

LiveStart(p) ==
    /\ conn[p].pc = "idle"
    /\ \/ /\ RentalIdsLeft
          /\ \E c \in CustArgs, m \in MovieArgs, due \in DueDates :
                RentCheck(p, c, m, due)
       \/ \E r \in RentalArgs : ReturnSelect(p, r)
       \/ PromoteUpdate(p)

LiveStep(p) ==
    \/ RentInsert(p)
    \/ RentUpdateMovie(p)
    \/ ReturnUpdateRental(p)
    \/ ReturnInsert(p)
    \/ ReturnUpdateMovie(p)
    \/ Commit(p)
    \/ Deadlock(p)

LiveNext == \E p \in Procs : LiveStart(p) \/ LiveStep(p)

LiveSpec ==
    /\ LiveInit
    /\ [][LiveNext]_vars
    /\ \A p \in Procs : WF_vars(LiveStep(p))

\* ================================================================ claims
Unreturned(m) ==
    {r \in DOMAIN rentals :
        rentals[r].movie_id = m /\ rentals[r].rental_status # "returned"}

ReturnRowsOf(r) == {i \in 1..Len(returns) : returns[i].rental_id = r}

CommitPcs == {"rent_commit", "ret_commit", "promote_commit", "stock_commit"}

\* C1: after any sequence of rent, return, overdue sweep and
\* update_stock_quantity calls, successful or failed, every movie has
\* stock_quantity >= 0 and is_available exactly when stock_quantity > 0.
C1_StockFlagConsistent ==
    \A m \in DOMAIN movies :
        /\ movies[m].stock_quantity >= 0
        /\ movies[m].is_available <=> (movies[m].stock_quantity > 0)

\* a manual stock correction to 0 after a rental was returned and another
\* was swept to overdue
C1_Witness ==
    /\ conn[Client].op = "stock" /\ conn[Client].result = "ok"
    /\ \E m \in DOMAIN movies :
          movies[m].stock_quantity = 0 /\ ~movies[m].is_available
    /\ Len(returns) > 0
    /\ \E r \in DOMAIN rentals : rentals[r].rental_status = "overdue"

\* C3 (state part): a rental row exists only together with its stock
\* decrement, and a rental is marked returned only together with its Return
\* row and its stock increment.
C3_NoPartialEffect ==
    /\ \A m \in DOMAIN movies :
          movies[m].stock_quantity =
              movies[m].total_copies - Cardinality(Unreturned(m))
    /\ \A r \in DOMAIN rentals :
          Cardinality(ReturnRowsOf(r)) =
              IF rentals[r].rental_status = "returned" THEN 1 ELSE 0

\* C3 (step part): the tables change only by the commit of a call that then
\* reports success; every other step of a call, the failing one included,
\* leaves movies, rentals and returns as they were.
C3_OnlyCommitChanges ==
    (<<movies, rentals, returns>>' # <<movies, rentals, returns>>)
        => /\ conn[Client].pc \in CommitPcs
           /\ conn'[Client].result = "ok"

\* C3: rent and returnRental are all-or-nothing: a store failure at any step
\* before the commit leaves the rentals, returns and movies tables exactly as
\* they were, and no partial effect is ever visible.
C3_AllOrNothing == []C3_NoPartialEffect /\ [][C3_OnlyCommitChanges]_vars

\* a return that failed in the store after a rent that had failed after its
\* INSERT (the rental id it had drawn is missing from the table)
C3_Witness ==
    /\ conn[Client].op = "return" /\ conn[Client].result = "Failed to return movie"
    /\ conn[Client].rental_id \in DOMAIN rentals
    /\ rentals[conn[Client].rental_id].rental_status = "active"
    /\ nextRentalId - 1 > Cardinality(DOMAIN rentals)

\* C5: returnRental on a rental that is already returned fails with 'Rental
\* not found or already returned', creates no Return row and leaves the
\* movie's stock and the rental row unchanged.
C5_ReturnTwiceFails ==
    [][\A r \in RentalArgs :
          (/\ ReturnSelect(Client, r)
           /\ r \in DOMAIN rentals
           /\ rentals[r].rental_status = "returned")
          => /\ conn'[Client].pc = "done"
             /\ conn'[Client].result = "Rental not found or already returned"
             /\ UNCHANGED <<movies, rentals, returns>>]_vars

C5_Witness ==
    /\ conn[Client].op = "return"
    /\ conn[Client].result = "Rental not found or already returned"
    /\ conn[Client].rental_id \in DOMAIN rentals
    /\ rentals[conn[Client].rental_id].rental_status = "returned"
    /\ Cardinality(ReturnRowsOf(conn[Client].rental_id)) = 1

\* C7 (step part): the commit of a rent lowers the stock of its movie by
\* exactly 1, the commit of a return raises it by exactly 1.
C7_StepByOne ==
    \A m \in DOMAIN movies :
        /\ (Commit(Client) /\ conn[Client].op = "rent" /\ conn[Client].movie_id = m)
              => movies'[m].stock_quantity = movies[m].stock_quantity - 1
        /\ (Commit(Client) /\ conn[Client].op = "return" /\ conn[Client].movie_id = m)
              => movies'[m].stock_quantity = movies[m].stock_quantity + 1

\* C7: a successful rent lowers the stock by exactly 1, a successful return
\* raises it by exactly 1, and once every rental of a movie has been returned
\* (N rent/return pairs) the stock is what it was before the first rent.
C7_RentReturnPairs ==
    /\ [](\A m \in DOMAIN movies :
             Unreturned(m) = {} =>
                 movies[m].stock_quantity = movies[m].total_copies)
    /\ [][C7_StepByOne]_vars

\* two rent/return pairs on a movie, the second return just committed
C7_Witness ==
    /\ conn[Client].op = "return" /\ conn[Client].result = "ok"
    /\ \E m \in DOMAIN movies :
          /\ Cardinality({r \in DOMAIN rentals : rentals[r].movie_id = m}) >= 2
          /\ Unreturned(m) = {}
          /\ movies[m].stock_quantity > 0

\* C10: rent on a movie with stock_quantity 0 (customer existing and active)
\* fails with 'Movie is not available for rental', inserts no rental row and
\* leaves the movie's stock_quantity and is_available unchanged.
C10_RentOutOfStockFails ==
    [][\A c \in CustArgs, m \in MovieArgs, due \in DueDates :
          (/\ RentCheck(Client, c, m, due)
           /\ c \in DOMAIN customers /\ customers[c].is_active
           /\ m \in DOMAIN movies /\ movies[m].stock_quantity = 0)
          => /\ conn'[Client].pc = "done"
             /\ conn'[Client].result = "Movie is not available for rental"
             /\ UNCHANGED <<movies, rentals, returns>>]_vars

\* the refused rent was for a movie with no copy left
C10_Witness ==
    /\ conn[Client].op = "rent"
    /\ conn[Client].result = "Movie is not available for rental"
    /\ conn[Client].movie_id \in DOMAIN movies
    /\ movies[conn[Client].movie_id].stock_quantity = 0

\* ---------------------------------------------- concurrent calls (RaceSpec)
\* the rentals of movie m that were in the table before any of the calls
PriorRentals(m) ==
    {r \in DOMAIN rentals :
        /\ rentals[r].movie_id = m
        /\ \A p \in Procs : ~(conn[p].op = "rent" /\ conn[p].rental_id = r)}

\* the stock of movie m before any of the calls
InitialStock(m) == movies[m].total_copies - Cardinality(PriorRentals(m))

Succeeded(op, m) ==
    {p \in Procs : /\ conn[p].pc = "done" /\ conn[p].op = op
                   /\ conn[p].movie_id = m /\ conn[p].result = "ok"}

AllCallsOver == \A p \in Procs : conn[p].pc \in {"idle", "done"}

\* C2: two rent calls for the same movie, run concurrently while the movie
\* has stock_quantity = 1: exactly one succeeds and creates a rental row, the
\* other fails with 'Movie is not available for rental' and creates none.
C2_LastCopyOneWinner ==
    \A p, q \in Procs, m \in MovieIds :
        (/\ p # q
         /\ \A x \in Procs \ {p, q} : conn[x].pc = "idle"
         /\ \A x \in {p, q} :
               /\ conn[x].pc = "done" /\ conn[x].op = "rent"
               /\ conn[x].movie_id = m
               /\ conn[x].result \notin
                     {"Customer not found", "Customer account is inactive",
                      "Due date must be in the future"}
         /\ InitialStock(m) = 1)
        => /\ Cardinality(Succeeded("rent", m)) = 1
           /\ \E x \in {p, q} :
                 conn[x].result = "Movie is not available for rental"
           /\ Cardinality({r \in DOMAIN rentals : rentals[r].movie_id = m}
                             \ PriorRentals(m)) = 1

\* C4: returnRental succeeds for every existing rental that is active or
\* overdue, so a rental swept to overdue can still be returned: a return is
\* refused as 'Rental not found or already returned' only when the rental is
\* absent or returned.
C4_OverdueCanBeReturned ==
    \A p \in Procs :
        (/\ conn[p].op = "return"
         /\ conn[p].result = "Rental not found or already returned"
         /\ conn[p].rental_id \in DOMAIN rentals)
        => rentals[conn[p].rental_id].rental_status = "returned"

\* C6 (state part): a rental has at most one Return row, and exactly one if
\* and only if it is returned.
C6_AtMostOneReturnRow ==
    \A r \in DOMAIN rentals :
        /\ Cardinality(ReturnRowsOf(r)) <= 1
        /\ (Cardinality(ReturnRowsOf(r)) = 1)
              <=> (rentals[r].rental_status = "returned")

\* C6: under any interleaving of returnRental calls every rental has at most
\* one Return row, exactly one if and only if it is returned, and a Return
\* row once written is never modified.
C6_OneReturnPerRental ==
    /\ []C6_AtMostOneReturnRow
    /\ [][/\ Len(returns') >= Len(returns)
          /\ SubSeq(returns', 1, Len(returns)) = returns]_vars

\* C8: under any interleaving of concurrent rent and returnRental calls no
\* stock update is lost: once all calls have finished, the stock of a movie is
\* its initial value minus the successful rents plus the successful returns.
C8_NoLostStockUpdate ==
    AllCallsOver =>
        \A m \in MovieIds :
            movies[m].stock_quantity =
                InitialStock(m) - Cardinality(Succeeded("rent", m))
                                + Cardinality(Succeeded("return", m))

\* ------------------------------------------------ the catalogue (AdminSpec)
\* C9: stock_quantity <= total_copies for every movie, after any sequence of
\* add_movie, update_movie, rent, returnRental and promoteOverdue calls.
C9_StockWithinTotal ==
    \A m \in DOMAIN movies :
        movies[m].stock_quantity <= movies[m].total_copies

\* ------------------------------------------------ the rent call (C11..C13)
\* C11: a rent whose due_date is on or before today is refused with 'Due date
\* must be in the future' and inserts nothing, so every rental row has a
\* due_date strictly later than its rental date.
C11_DueAfterRentalDate ==
    \A r \in DOMAIN rentals : rentals[r].due_date > rentals[r].rental_date

\* the preconditions of rent in the order the contract lists them, each with
\* the failure it reports; a check on a row that does not exist counts as failed
RentPreconditions(c, m, due) ==
    << <<c \in DOMAIN customers, "Customer not found">>,
       <<c \in DOMAIN customers /\ customers[c].is_active,
         "Customer account is inactive">>,
       <<m \in DOMAIN movies, "Movie not found">>,
       <<m \in DOMAIN movies /\ movies[m].is_available
                             /\ movies[m].stock_quantity > 0,
         "Movie is not available for rental">>,
       <<due > today, "Due date must be in the future">> >>

FailingChecks(c, m, due) ==
    {i \in 1..Len(RentPreconditions(c, m, due)) : ~RentPreconditions(c, m, due)[i][1]}

\* C12: rent reports the failure of the earliest failing precondition, for
\* every combination of failing preconditions, and goes on to its INSERT only
\* when none fails.
C12_FirstFailureWins ==
    [][\A c \in CustArgs, m \in MovieArgs, due \in DueDates :
          RentCheck(Client, c, m, due) =>
             LET failing == FailingChecks(c, m, due)
             IN  IF failing = {}
                 THEN conn'[Client].pc = "rent_insert"
                 ELSE /\ conn'[Client].pc = "done"
                      /\ \E i \in failing :
                            /\ \A j \in failing : i <= j
                            /\ conn'[Client].result =
                                  RentPreconditions(c, m, due)[i][2]]_vars

\* a deactivated customer asked for a movie that does not exist
C12_Witness ==
    /\ conn[Client].op = "rent"
    /\ conn[Client].result = "Customer account is inactive"
    /\ conn[Client].movie_id \notin DOMAIN movies
    /\ DOMAIN movies # {}

\* the failures rent and returnRental report for a precondition that fails
PreconditionFailures ==
    {"Customer not found", "Customer account is inactive", "Movie not found",
     "Movie is not available for rental", "Due date must be in the future",
     "Rental not found or already returned"}

\* C13: a rent or returnRental call that ends with a precondition failure has
\* left the customers, movies, rentals and returns tables unchanged.
C13_PreconditionFailureNoEffect ==
    [][(/\ conn'[Client].pc = "done"
        /\ conn'[Client].op \in {"rent", "return"}
        /\ conn'[Client].result \in PreconditionFailures)
       => UNCHANGED <<customers, movies, rentals, returns>>]_vars

\* a rent refused for its due date while the tables hold a rental and a return
C13_Witness ==
    /\ conn[Client].op = "rent"
    /\ conn[Client].result = "Due date must be in the future"
    /\ DOMAIN rentals # {}
    /\ Len(returns) > 0

\* ------------------------------------------- rental status (C14..C16)
StatusMoves ==
    {<<"active", "overdue">>, <<"active", "returned">>, <<"overdue", "returned">>}

\* C14 (one step): a rental row is never removed, a returned rental keeps its
\* status, actual_return_date and late_fee, and a status changes only along
\* active -> overdue, active -> returned or overdue -> returned.
C14_StatusStep ==
    \A r \in DOMAIN rentals :
        /\ r \in DOMAIN rentals'
        /\ rentals[r].rental_status = "returned" =>
              /\ rentals'[r].rental_status = "returned"
              /\ rentals'[r].actual_return_date = rentals[r].actual_return_date
              /\ rentals'[r].late_fee = rentals[r].late_fee
        /\ \/ rentals'[r].rental_status = rentals[r].rental_status
           \/ <<rentals[r].rental_status, rentals'[r].rental_status>> \in StatusMoves

\* C14: no transition leaves returned: no later rent, returnRental or
\* promoteOverdue call changes the status, actual_return_date or late_fee of a
\* returned rental, and status only moves along the three allowed transitions.
C14_ReturnedIsFinal == [][C14_StatusStep]_vars

\* an overdue sweep has run over a rental that was returned after its due date
C14_Witness ==
    /\ conn[Client].op = "promote" /\ conn[Client].result = "ok"
    /\ \E r \in DOMAIN rentals :
          /\ rentals[r].rental_status = "returned"
          /\ rentals[r].due_date < today
          /\ rentals[r].late_fee > 0

\* C15: promoteOverdue run twice in succession on the same day, with no other
\* call in between: the second run matches no rental, returns count 0 and its
\* commit changes no rental row.
C15_SweepIdempotent ==
    [][/\ (/\ conn[Client].pc = "done" /\ conn[Client].op = "promote"
           /\ conn[Client].result = "ok" /\ conn[Client].row_date = today
           /\ PromoteUpdate(Client))
          => /\ conn'[Client].overdue = {}
             /\ conn'[Client].updated_count = 0
       /\ (/\ Commit(Client) /\ conn[Client].op = "promote"
           /\ conn[Client].updated_count = 0)
          => /\ rentals' = rentals
             /\ conn'[Client].updated_count = 0]_vars

\* a sweep that found nothing to change on a day on which a rental is overdue
C15_Witness ==
    /\ conn[Client].pc = "done" /\ conn[Client].op = "promote"
    /\ conn[Client].result = "ok"
    /\ conn[Client].updated_count = 0
    /\ conn[Client].row_date = today
    /\ \E r \in DOMAIN rentals : rentals[r].rental_status = "overdue"

\* C16: the commit of promoteOverdue sets to overdue exactly the rentals that
\* were active with due_date strictly before the day of the sweep, returns
\* their number, and leaves every other rental, the Return rows, the movies
\* and the customers unchanged.
C16_SweepExact ==
    [][(Commit(Client) /\ conn[Client].op = "promote") =>
          LET due == {r \in DOMAIN rentals :
                         /\ rentals[r].rental_status = "active"
                         /\ rentals[r].due_date < conn[Client].row_date}
          IN  /\ DOMAIN rentals' = DOMAIN rentals
              /\ \A r \in due :
                    rentals'[r] = [rentals[r] EXCEPT !.rental_status = "overdue"]
              /\ \A r \in DOMAIN rentals \ due : rentals'[r] = rentals[r]
              /\ conn'[Client].result = "ok"
              /\ conn'[Client].updated_count = Cardinality(due)
              /\ UNCHANGED <<returns, movies, customers>>]_vars

\* a sweep that changed one rental and left alone one that is due later
C16_Witness ==
    /\ conn[Client].pc = "done" /\ conn[Client].op = "promote"
    /\ conn[Client].result = "ok"
    /\ conn[Client].updated_count = 1
    /\ \E r \in DOMAIN rentals : rentals[r].rental_status = "overdue"
    /\ \E r \in DOMAIN rentals :
          /\ rentals[r].rental_status = "active"
          /\ rentals[r].due_date >= conn[Client].row_date

\* ------------------------------------------------ money (C17..C19)
\* C17: calculateLateFee(due_date, return_date) returns late_days = max(0,
\* return_date - due_date), which is 0 whenever return_date <= due_date, and
\* late_fee = late_days x late_fee_per_day, for every pair of dates (the
\* return date defaulting to today), and changes no stored state.
C17_LateFeeFormula ==
    [][\A due \in DueDates, ret \in ReturnDates :
          CalculateLateFee(Client, due, ret) =>
             LET on == IF ret = NoDate THEN today ELSE ret
                 days == IF on > due THEN on - due ELSE 0
             IN  /\ conn'[Client].late_days = days
                 /\ conn'[Client].late_fee = days * late_fee_per_day
                 /\ on <= due => conn'[Client].late_days = 0 /\ conn'[Client].late_fee = 0
                 /\ UNCHANGED <<movies, customers, rentals, returns, today>>]_vars

\* a preview two days past the due date, and the store is not empty
C17_Witness ==
    /\ conn[Client].op = "late_fee"
    /\ conn[Client].return_date - conn[Client].due_date = 2
    /\ conn[Client].late_days = 2
    /\ conn[Client].late_fee = 2 * late_fee_per_day
    /\ DOMAIN rentals # {}

\* C18: a successful rent creates exactly one rental row, with status active,
\* whose total_charge is the movie's rental_rate times the number of days from
\* the day of the call to due_date, in whole cents.
C18_ChargeIsRateTimesDays ==
    [][/\ \A c \in CustArgs, m \in MovieArgs, due \in DueDates :
             (RentCheck(Client, c, m, due) /\ conn'[Client].pc = "rent_insert")
             => /\ conn'[Client].due_date = due
                /\ conn'[Client].movie_id = m
                /\ conn'[Client].total_charge = movies[m].rental_rate * (due - today)
       /\ (Commit(Client) /\ conn[Client].op = "rent")
             => LET r == conn[Client].rental_id
                IN  /\ r \notin DOMAIN rentals
                    /\ DOMAIN rentals' = DOMAIN rentals \cup {r}
                    /\ \A x \in DOMAIN rentals : rentals'[x] = rentals[x]
                    /\ rentals'[r].rental_status = "active"
                    /\ rentals'[r].movie_id = conn[Client].movie_id
                    /\ rentals'[r].due_date = conn[Client].due_date
                    /\ rentals'[r].total_charge = conn[Client].total_charge
                    /\ conn'[Client].result = "ok"
       /\ (rentals' # rentals /\ DOMAIN rentals' # DOMAIN rentals)
             => Commit(Client) /\ conn[Client].op = "rent"]_vars

\* a rental for two days has been committed at twice the daily rate
C18_Witness ==
    /\ conn[Client].op = "rent" /\ conn[Client].result = "ok"
    /\ conn[Client].rental_id \in DOMAIN rentals
    /\ LET row == rentals[conn[Client].rental_id]
       IN  /\ row.rental_status = "active"
           /\ row.due_date - row.rental_date = 2
           /\ row.total_charge = 2 * movies[row.movie_id].rental_rate

\* C19: a successful returnRental sets the rental to returned, with
\* actual_return_date the day of the call and late_fee = max(0, that day -
\* due_date) x late_fee_per_day, and appends one Return row with the same
\* late_days and late_fee and total_paid = total_charge + late_fee; the fee is
\* the one calculateLateFee previews for that due date on that day.
C19_ReturnCharges ==
    [][/\ \A r \in RentalArgs :
             (ReturnSelect(Client, r) /\ conn'[Client].pc = "ret_update_rental")
             => conn'[Client].rental_id = r /\ conn'[Client].return_date = today
       /\ (Commit(Client) /\ conn[Client].op = "return")
             => LET r    == conn[Client].rental_id
                    day  == conn[Client].return_date
                    days == IF day > rentals[r].due_date
                            THEN day - rentals[r].due_date ELSE 0
                    fee  == days * late_fee_per_day
                IN  /\ rentals' = [rentals EXCEPT ![r] =
                          [@ EXCEPT !.rental_status = "returned",
                                    !.actual_return_date = day,
                                    !.late_fee = fee]]
                    /\ Len(returns') = Len(returns) + 1
                    /\ SubSeq(returns', 1, Len(returns)) = returns
                    /\ returns'[Len(returns')].rental_id = r
                    /\ returns'[Len(returns')].late_days = days
                    /\ returns'[Len(returns')].late_fee = fee
                    /\ returns'[Len(returns')].total_paid =
                          rentals[r].total_charge + fee
                    /\ calculate_late_fee(rentals[r].due_date, day) = <<days, fee>>
                    /\ conn'[Client].result = "ok"]_vars

\* a rental returned one day late: fee of one day, paid on top of the charge
C19_Witness ==
    /\ conn[Client].op = "return" /\ conn[Client].result = "ok"
    /\ conn[Client].rental_id \in DOMAIN rentals
    /\ LET row == rentals[conn[Client].rental_id]
       IN  /\ row.rental_status = "returned"
           /\ row.actual_return_date = row.due_date + 1
           /\ row.late_fee = late_fee_per_day
           /\ \E i \in ReturnRowsOf(conn[Client].rental_id) :
                 /\ returns[i].late_days = 1
                 /\ returns[i].total_paid = row.total_charge + late_fee_per_day

\* ------------------------------------------------ customers (C20)
\* C20 (step part): a rent for a missing customer ends with 'Customer not
\* found', one for a deactivated customer with 'Customer account is inactive',
\* both without a rental row; a rent goes on to its INSERT only for a customer
\* found active, and a rental row is only ever added by the commit of a rent,
\* for the customer of that call.
C20_RentChecksCustomer ==
    /\ \A c \in CustArgs, m \in MovieArgs, due \in DueDates :
          RentCheck(Client, c, m, due) =>
             /\ c \notin DOMAIN customers =>
                   /\ conn'[Client].pc = "done"
                   /\ conn'[Client].result = "Customer not found"
             /\ (c \in DOMAIN customers /\ ~customers[c].is_active) =>
                   /\ conn'[Client].pc = "done"
                   /\ conn'[Client].result = "Customer account is inactive"
             /\ conn'[Client].pc = "rent_insert" =>
                   /\ c \in DOMAIN customers /\ customers[c].is_active
                   /\ conn'[Client].customer_id = c
             /\ rentals' = rentals
    /\ \A r \in DOMAIN rentals' \ DOMAIN rentals :
          /\ Commit(Client) /\ conn[Client].op = "rent"
          /\ r = conn[Client].rental_id
          /\ rentals'[r].customer_id = conn[Client].customer_id

\* C20: every rental row that exists was created by a rent call that found
\* its customer existing with is_active = true (the customers table is not
\* changed by any call of the lifecycle, so the customer of every rental row
\* is still active).
C20_RentalsOnlyForActiveCustomers ==
    /\ [](\A r \in DOMAIN rentals :
             /\ rentals[r].customer_id \in DOMAIN customers
             /\ customers[rentals[r].customer_id].is_active)
    /\ [][C20_RentChecksCustomer]_vars

\* a deactivated customer was refused while the table holds a rental
C20_Witness ==
    /\ conn[Client].op = "rent"
    /\ conn[Client].result = "Customer account is inactive"
    /\ conn[Client].movie_id \in DOMAIN movies
    /\ movies[conn[Client].movie_id].stock_quantity > 0
    /\ DOMAIN rentals # {}

\* ------------------------------------------------ ownership of stock (C21)
\* C21: only rent and returnRental change a movie's stock_quantity, and only
\* rent, returnRental and promoteOverdue change a rental's status: no step of
\* any other operation of the models changes either.
C21_OnlyLifecycleWrites ==
    [][/\ (\E m \in DOMAIN movies :
              m \in DOMAIN movies'
                 /\ movies'[m].stock_quantity # movies[m].stock_quantity)
          => conn[Client].op \in {"rent", "return"}
       /\ (\E r \in DOMAIN rentals :
              r \in DOMAIN rentals'
                 /\ rentals'[r].rental_status # rentals[r].rental_status)
          => conn[Client].op \in {"rent", "return", "promote"}]_vars

\* ------------------------------------------- different movies (C22, PairSpec)
\* the calls of p and q have both run on a movie, and not on the same one
OnDifferentMovies(p, q) ==
    /\ p # q
    /\ conn[p].pc = "done" /\ conn[q].pc = "done"
    /\ conn[p].movie_id \in DOMAIN movies /\ conn[q].movie_id \in DOMAIN movies
    /\ conn[p].movie_id # conn[q].movie_id

NewRentals(m) ==
    {r \in DOMAIN rentals : rentals[r].movie_id = m} \ PriorRentals(m)

\* C22 (step part): a step changes the row of a movie only when it is the
\* commit of a call on that movie.
C22_OtherMoviesUntouched ==
    \A b \in DOMAIN movies :
        movies'[b] # movies[b] =>
            \E p \in Procs : /\ conn[p].pc \in CommitPcs
                             /\ conn'[p].pc = "done"
                             /\ conn[p].movie_id = b

\* C22 (final part): once two calls on different movies are over, whatever
\* the interleaving of their steps, neither was failed by the store, a rent
\* was refused for stock only if its movie had none at the start, and every
\* movie has the stock, the flag and the number of rental rows that its own
\* call alone gives it.
C22_EachAsIfAlone ==
    \A p, q \in Procs :
        (OnDifferentMovies(p, q) /\ \A x \in Procs \ {p, q} : conn[x].pc = "idle")
        => /\ \A x \in {p, q} :
                 LET m == conn[x].movie_id
                 IN  /\ conn[x].result \notin
                           {"Failed to rent movie", "Failed to return movie"}
                     /\ (/\ conn[x].op = "rent"
                         /\ conn[x].result \notin
                               {"Customer not found", "Customer account is inactive"})
                        => (conn[x].result = "Movie is not available for rental"
                               <=> InitialStock(m) = 0)
                     /\ conn[x].op = "return" => conn[x].result = "ok"
                     /\ movies[m].stock_quantity =
                           InitialStock(m) - Cardinality(Succeeded("rent", m))
                                           + Cardinality(Succeeded("return", m))
                     /\ movies[m].is_available <=> (movies[m].stock_quantity > 0)
                     /\ Cardinality(NewRentals(m)) = Cardinality(Succeeded("rent", m))
           /\ Len(returns) = Cardinality({x \in {p, q} :
                                  conn[x].op = "return" /\ conn[x].result = "ok"})

\* C22, amended: rentals of different movies are independent: a call on movie
\* A leaves the row of every other movie unchanged, and two calls on
\* different movies end, in either order and under any interleaving, with the
\* same results and the same rows, up to the ids the rental and Return rows
\* are given.
C22_IndependentUpToIds ==
    /\ []C22_EachAsIfAlone
    /\ [][C22_OtherMoviesUntouched]_vars

\* a rent on one movie and a return on the other have both succeeded
C22_Witness ==
    \E p, q \in Procs :
        /\ OnDifferentMovies(p, q)
        /\ conn[p].op = "rent" /\ conn[p].result = "ok"
        /\ conn[q].op = "return" /\ conn[q].result = "ok"

\* C22, as stated: two operations on different movies reach the same final
\* store state in either order and under any interleaving, that is the state
\* reached by running them one after the other: the rent of the first
\* connection gets the lower rental id.
C22_SameFinalState ==
    \A p, q \in Procs :
        (/\ OnDifferentMovies(p, q) /\ p < q
         /\ conn[p].op = "rent" /\ conn[p].result = "ok"
         /\ conn[q].op = "rent" /\ conn[q].result = "ok")
        => conn[p].rental_id < conn[q].rental_id

C24_ActiveListIsUnreturned ==
    (conn[Client].pc = "done" /\ conn[Client].op = "get_active")
        => conn[Client].found =
              {r \in DOMAIN rentals : rentals[r].rental_status # "returned"}

\* C25: the result of get_overdue_rentals is exactly the set of unreturned
\* rentals whose due_date is before today, whether or not promoteOverdue has
\* set their status to overdue.
C25_OverdueListIsPastDue ==
    [][GetOverdueRentals(Client) =>
          conn'[Client].found =
              {r \in DOMAIN rentals :
                  /\ rentals[r].rental_status # "returned"
                  /\ rentals[r].due_date < today}]_vars

\* ------------------------------------------------ added movies (C26, C27)
\* C26: for every movie created by add_movie and touched afterwards only by
\* sequential rent, returnRental and promoteOverdue calls, stock_quantity plus
\* the number of its rentals with status active or overdue equals
\* total_copies, in every reachable state.
C26_CopiesConserved ==
    \A m \in DOMAIN movies :
        movies[m].stock_quantity
            + Cardinality({r \in DOMAIN rentals :
                              /\ rentals[r].movie_id = m
                              /\ rentals[r].rental_status \in {"active", "overdue"}})
          = movies[m].total_copies

\* an added movie with both its copies out, one of the rentals swept to overdue
C26_Witness ==
    \E m \in DOMAIN movies :
        /\ movies[m].total_copies = 2
        /\ movies[m].stock_quantity = 0
        /\ \E r \in DOMAIN rentals :
              rentals[r].movie_id = m /\ rentals[r].rental_status = "overdue"
        /\ \E r \in DOMAIN rentals :
              rentals[r].movie_id = m /\ rentals[r].rental_status = "active"

\* C27: every movie created by a successful add_movie(total_copies = n), for
\* every n >= 0 including 0, starts with stock_quantity = n and is_available
\* equal to (n > 0).
C27_NewMovieFlag ==
    [][\A t \in Titles, rate \in Rates, n \in Copies :
          (AddMovie(Client, t, rate, n) /\ conn'[Client].result = "ok")
          => LET m == conn'[Client].movie_id
             IN  /\ m \in DOMAIN movies' /\ m \notin DOMAIN movies
                 /\ movies'[m].stock_quantity = n
                 /\ movies'[m].is_available <=> (n > 0)]_vars

\* ------------------------------------------------ removals (C28, C29)
\* C28 (step part): a delete_movie that removes a movie removes only that
\* one, which has no rental with status active or overdue, and a delete_movie
\* that is refused changes nothing.
C28_DeleteStep ==
    \A m \in MovieArgs :
        DeleteMovie(Client, m) =>
            /\ UNCHANGED <<customers, rentals, returns>>
            /\ IF conn'[Client].result = "ok"
               THEN /\ ActiveRentalsOfMovie(m) = {}
                    /\ DOMAIN movies' = DOMAIN movies \ {m}
                    /\ \A x \in DOMAIN movies' : movies'[x] = movies[x]
               ELSE movies' = movies

\* C28: delete_movie never removes a movie that has a rental with status
\* active or overdue: in every reachable state every such rental refers to a
\* movie row that exists, and a refused delete_movie changes nothing.
C28_RentedMovieStays ==
    /\ [](\A r \in DOMAIN rentals :
             rentals[r].rental_status \in {"active", "overdue"}
                => rentals[r].movie_id \in DOMAIN movies)
    /\ [][C28_DeleteStep]_vars

\* a delete_movie refused for a movie that is out on an overdue rental
C28_Witness ==
    /\ conn[Client].op = "delete_movie"
    /\ conn[Client].result = "Cannot delete movie"
    /\ conn[Client].movie_id \in DOMAIN movies
    /\ \E r \in DOMAIN rentals :
          /\ rentals[r].movie_id = conn[Client].movie_id
          /\ rentals[r].rental_status = "overdue"

\* C29: delete_customer deactivates a customer only when that customer has
\* no rental with status active or overdue and changes nothing when it
\* refuses; a deactivated customer stays deactivated, every later rent for
\* that customer fails with 'Customer account is inactive', and the rentals
\* and Return rows are left as they were.
C29_DeactivateOnlyIdleCustomers ==
    [][/\ \A c \in CustArgs :
             DeleteCustomer(Client, c) =>
                /\ UNCHANGED <<movies, rentals, returns>>
                /\ IF conn'[Client].result = "ok"
                   THEN /\ c \in DOMAIN customers
                        /\ ActiveRentalsOfCustomer(c) = {}
                        /\ customers' = [customers EXCEPT ![c].is_active = FALSE]
                   ELSE customers' = customers
       /\ \A c \in DOMAIN customers :
             ~customers[c].is_active =>
                /\ c \in DOMAIN customers' /\ ~customers'[c].is_active
                /\ \A m \in MovieArgs, due \in DueDates :
                      RentCheck(Client, c, m, due) =>
                         /\ conn'[Client].pc = "done"
                         /\ conn'[Client].result = "Customer account is inactive"
                         /\ UNCHANGED <<movies, rentals, returns>>]_vars

\* a customer who had rented and returned was deactivated and then refused
C29_Witness ==
    /\ conn[Client].op = "rent"
    /\ conn[Client].result = "Customer account is inactive"
    /\ \E c \in DOMAIN customers :
          /\ ~customers[c].is_active
          /\ \E r \in DOMAIN rentals :
                rentals[r].customer_id = c /\ rentals[r].rental_status = "returned"
    /\ Len(returns) > 0

\* ------------------------------------------------ the form preview (C30)
\* C30: for every movie, due date and time of day, the preview of the rental
\* form shows the rental period and total charge that rent_movie computes for
\* the same rental at that moment, and reports 'Due date must be in the
\* future' exactly when rent_movie would reject the due date.
C30_PreviewMatchesRent ==
    [][\A m \in DOMAIN movies, due \in DueDates, time \in TimesOfDay :
          UpdateRentalInfo(Client, m, due, time) =>
             /\ conn'[Client].result = "Due date must be in the future"
                   <=> due - today <= 0
             /\ due - today > 0 =>
                   /\ conn'[Client].rental_days = due - today
                   /\ conn'[Client].total_charge =
                         movies[m].rental_rate * (due - today)]_vars

====
